---------------------------- MODULE Spec2Model ----------------------------
(***************************************************************************)
(* Model of src/app.py: the Streamlit dashboard "Dashboard de Casos".      *)
(*                                                                         *)
(* The script is one render pass: load_data() (memoised for one hour),     *)
(* the timeline section, the KPI cards (get_kpi_metrics) and the           *)
(* categorical count tables / top-5 pies, all inside one try/except.       *)
(*                                                                         *)
(* Time is counted in seconds.  A DataFrame is a record                    *)
(*    [nrows |-> n, columns |-> <<column, ...>>]                           *)
(* whose columns are [name, dtype, cells] with cells a sequence of n       *)
(* cells.  A cell is a record tagged by k: a number, a string, a           *)
(* timestamp, a nested (unhashable) JSON object, or the missing value      *)
(* (NaN / None / NaT).                                                     *)
(***************************************************************************)
EXTENDS Integers, Sequences, FiniteSets, TLC

VARIABLES
    data_dir,     \* the files of data/: [csv |-> file, json |-> file]
    clock,        \* wall-clock / monotonic time, in seconds
    cache,        \* the st.cache_data slot of load_data
    pc,           \* position of the script: the stage that runs next
    load_return,  \* how the last load_data() call of this pass ended
    df,           \* the script's variable df
    kpi_metrics,  \* the script's variable kpi_metrics
    caught,       \* the exception bound at `except Exception as e`
    screen        \* the elements emitted to the page in this pass, in order

vars == <<data_dir, clock, cache, pc, load_return, df, kpi_metrics, caught, screen>>

---------------------------------------------------------------------------
(* Bounds of the model *)

MaxRows == 4
MaxCells == 4
MaxTicks == 4

---------------------------------------------------------------------------
(* Cells *)

Missing == [k |-> "missing"]
Num(n) == [k |-> "num", n |-> n]
Str(s) == [k |-> "str", s |-> s]
Date(t) == [k |-> "date", t |-> t]
Nested == [k |-> "dict"]

IsMissing(c) == c.k = "missing"

\* A name bound to nothing yet (a NameError if read).  For kpi_metrics, a
\* list, the empty list stands for it: get_kpi_metrics never returns it.
Unbound == [unbound |-> TRUE]
NoKpis == <<>>

\* Outcome of a call: a returned value or a raised exception.
Return(v) == [exc |-> "none", val |-> v]
Raise(x) == [exc |-> x]

Range(s) == {s[i] : i \in DOMAIN s}

RECURSIVE SumSeq(_)
SumSeq(s) == IF s = <<>> THEN 0 ELSE Head(s) + SumSeq(Tail(s))

---------------------------------------------------------------------------
(* DataFrame access *)

ColumnNames(frame) == {frame.columns[i].name : i \in DOMAIN frame.columns}

\* 'name' in df.columns
HasColumn(frame, name) == name \in ColumnNames(frame)

\* df[name]
Col(frame, name) ==
    frame.columns[CHOOSE i \in DOMAIN frame.columns : frame.columns[i].name = name]

\* pd.DataFrame()
EmptyFrame == [nrows |-> 0, columns |-> <<>>]

---------------------------------------------------------------------------
(* Series.value_counts(): occurrences per distinct non-missing value,      *)
(* most frequent first.  pandas sorts the counts with its default          *)
(* (non-stable) sort, so the order among equal counts is not fixed by the  *)
(* code: every order of the tied values is a possible result.  A cell      *)
(* that cannot be hashed (a nested JSON object) raises TypeError.          *)

Occurrences(cells, v) == Cardinality({i \in DOMAIN cells : cells[i] = v})

RECURSIVE Rankings(_, _)
Rankings(cells, values) ==
    IF values = {} THEN {<<>>}
    ELSE LET most == CHOOSE m \in {Occurrences(cells, v) : v \in values} :
                         \A v \in values : Occurrences(cells, v) <= m
             tied == {v \in values : Occurrences(cells, v) = most}
         IN  UNION {{<<[label |-> v, count |-> most]>> \o rest :
                        rest \in Rankings(cells, values \ {v})} : v \in tied}

value_counts(cells) ==
    IF \E i \in DOMAIN cells : cells[i].k = "dict"
    THEN {Raise("TypeError")}
    ELSE {Return(r) : r \in Rankings(cells, {c \in Range(cells) : ~IsMissing(c)})}

---------------------------------------------------------------------------
(* Number formatting *)

\* num/den rounded to the nearest integer, halves to the even one
\* (num >= 0, den > 0): the rounding of Python's float formatting.  With
\* at most six values averaged the halves that occur are exact in binary.
RoundHalfEven(num, den) ==
    LET q == num \div den
        r == num % den
    IN  IF 2 * r < den THEN q
        ELSE IF 2 * r > den THEN q + 1
        ELSE IF q % 2 = 0 THEN q ELSE q + 1

\* f"{x:.1f}" of x = tenths / 10, tenths >= 0
FormatTenths(tenths) == ToString(tenths \div 10) \o "." \o ToString(tenths % 10)

\* the numbers of the non-missing cells
Numbers(cells) ==
    LET present == SelectSeq(cells, LAMBDA c : ~IsMissing(c))
    IN  [i \in DOMAIN present |-> present[i].n]

\* f"{Series.mean():.1f}": the mean skips missing values; of no value it is NaN
FormatMean(cells) ==
    LET xs == Numbers(cells)
    IN  IF xs = <<>> THEN "nan"
        ELSE FormatTenths(RoundHalfEven(10 * SumSeq(xs), Len(xs)))

\* f"{Series.std():.1f}": the sample standard deviation (ddof = 1) of the
\* non-missing values; of fewer than two values it is NaN
FormatStd(cells) ==
    LET xs == Numbers(cells)
        n == Len(xs)
        squares == SumSeq([i \in DOMAIN xs |-> xs[i] * xs[i]])
        \* variance = ssq / dof
        ssq == n * squares - SumSeq(xs) * SumSeq(xs)
        dof == n * (n - 1)
        tenths == CHOOSE t \in 0..(10 * (SumSeq(xs) + 1)) :
                      /\ 400 * ssq < (2 * t + 1) * (2 * t + 1) * dof
                      /\ t = 0 \/ (2 * t - 1) * (2 * t - 1) * dof <= 400 * ssq
    IN  IF n < 2 THEN "nan" ELSE FormatTenths(tenths)

\* A Series whose mean()/std() can be computed: numbers and missing values
IsNumeric(cells) == \A i \in DOMAIN cells : cells[i].k \in {"num", "missing"}

---------------------------------------------------------------------------
(* get_kpi_metrics *)

SecondsPerDay == 24 * 60 * 60

\* pd.Timedelta(days=30)
UpcomingDays == 30

\* Between with the ends of the interval left out
Between_exclusive(c, left, right) == c.k = "date" /\ left < c.t /\ c.t < right

\* Series.between(left, right): inclusive on both sides, False for NaT
Between(c, left, right) == c.k = "date" /\ left <= c.t /\ c.t <= right

\* str(top_actuacion_nombre)
PyStr(c) == IF c.k = "str" THEN c.s ELSE ToString(c.n)

\* Truncate with the test len(str(x)) >= 20
Truncate_from20(s) == IF Len(s) >= 20 THEN SubSeq(s, 1, 20) \o "..." ELSE s

\* str(x)[:20] + '...' if len(str(x)) > 20 else str(x)
TruncateLen == 20
Truncate(s) == IF Len(s) > TruncateLen THEN SubSeq(s, 1, TruncateLen) \o "..." ELSE s

TotalKpi(frame) ==
    <<[title |-> "Total de Casos", value |-> frame.nrows,
       delta |-> "casos registrados",
       help |-> "Número total de casos en el sistema"]>>

\* DuracionKpi without the test 'Duración' in df.columns
DuracionKpi_unguarded(frame) ==
    LET cells == IF HasColumn(frame, "Duración") THEN Col(frame, "Duración").cells ELSE <<>>
    IN  Return(<<[title |-> "Duración Promedio",
                  value |-> FormatMean(cells),
                  delta |-> "±" \o FormatStd(cells) \o " días",
                  help |-> "Promedio y desviación estándar de la duración de los casos"]>>)

DuracionKpi(frame) ==
    IF ~HasColumn(frame, "Duración") THEN Return(<<>>)
    ELSE IF ~IsNumeric(Col(frame, "Duración").cells) THEN Raise("TypeError")
    ELSE Return(<<[title |-> "Duración Promedio",
                   value |-> FormatMean(Col(frame, "Duración").cells),
                   delta |-> "±" \o FormatStd(Col(frame, "Duración").cells) \o " días",
                   help |-> "Promedio y desviación estándar de la duración de los casos"]>>)

VencimientosKpi(frame, today) ==
    IF ~HasColumn(frame, "Fecha Límite") THEN Return(<<>>)
    ELSE LET cells == Col(frame, "Fecha Límite").cells
             proximos == SelectSeq(cells,
                             LAMBDA c : Between(c, today, today + UpcomingDays * SecondsPerDay))
         IN  IF \E i \in DOMAIN cells : cells[i].k \notin {"date", "missing"}
             THEN Raise("TypeError")
             ELSE Return(<<[title |-> "Próximos Vencimientos",
                            value |-> Len(proximos),
                            delta |-> "en los próximos 30 días",
                            help |-> "Casos que vencen en los próximos 30 días"]>>)

\* counts is one outcome of df['Actuación'].value_counts()
ActuacionKpi(frame, counts) ==
    IF ~HasColumn(frame, "Actuación") THEN Return(<<>>)
    ELSE IF counts.exc # "none" THEN counts
    ELSE IF counts.val = <<>> THEN Raise("IndexError")
    ELSE Return(<<[title |-> "Actuación más Común",
                   value |-> Truncate(PyStr(counts.val[1].label)),
                   delta |-> ToString(counts.val[1].count) \o " casos",
                   help |-> "Tipo de actuación más frecuente"]>>)

\* The outcomes of get_kpi_metrics(df) called at time today: the records in
\* display order, or the first exception raised.
get_kpi_metrics(frame, today) ==
    LET d == DuracionKpi(frame)
        v == VencimientosKpi(frame, today)
        rankings == IF HasColumn(frame, "Actuación")
                    THEN value_counts(Col(frame, "Actuación").cells)
                    ELSE {Return(<<>>)}
    IN  {IF d.exc # "none" THEN d
         ELSE IF v.exc # "none" THEN v
         ELSE IF ActuacionKpi(frame, counts).exc # "none" THEN ActuacionKpi(frame, counts)
         ELSE Return(TotalKpi(frame) \o d.val \o v.val \o ActuacionKpi(frame, counts).val) :
            counts \in rankings}

---------------------------------------------------------------------------
(* The normalisation steps of load_data (CSV branch) *)

IsSpace(s, i) == SubSeq(s, i, i) = " "

\* str.strip()
RECURSIVE Strip(_)
Strip(s) ==
    IF Len(s) > 0 /\ IsSpace(s, 1) THEN Strip(SubSeq(s, 2, Len(s)))
    ELSE IF Len(s) > 0 /\ IsSpace(s, Len(s)) THEN Strip(SubSeq(s, 1, Len(s) - 1))
    ELSE s

\* The texts the parsers of the model know; any other text does not parse.
NumberTexts == [t \in {"10", "25"} |-> IF t = "10" THEN 10 ELSE 25]
DateTexts ==
    [t \in {"2024-01-15", "2024-03-01"} |->
        IF t = "2024-01-15" THEN 10 * SecondsPerDay ELSE 56 * SecondsPerDay]

\* df.columns = df.columns.str.strip()
StripColumnNames(frame) ==
    [frame EXCEPT !.columns = [i \in DOMAIN @ |-> [@[i] EXCEPT !.name = Strip(@)]]]

\* pd.to_numeric(x, errors='coerce') of one cell
ToNumericCell(c) ==
    IF c.k = "num" THEN c
    ELSE IF c.k = "str" /\ c.s \in DOMAIN NumberTexts THEN Num(NumberTexts[c.s])
    ELSE Missing

\* pd.to_datetime(x, errors='coerce') of one cell
ToDatetimeCell(c) ==
    IF c.k = "date" THEN c
    ELSE IF c.k = "str" /\ c.s \in DOMAIN DateTexts THEN Date(DateTexts[c.s])
    ELSE Missing

\* df[name] = column
SetColumn(frame, name, column) ==
    [frame EXCEPT !.columns =
        [i \in DOMAIN frame.columns |->
            IF frame.columns[i].name = name THEN column ELSE frame.columns[i]]]

\* df['Duración'] = pd.to_numeric(df['Duración'], errors='coerce')
CoerceDuracion(frame) ==
    IF ~HasColumn(frame, "Duración") THEN frame
    ELSE LET cells == Col(frame, "Duración").cells
         IN  SetColumn(frame, "Duración",
                 [name |-> "Duración", dtype |-> "float64",
                  cells |-> [r \in DOMAIN cells |-> ToNumericCell(cells[r])]])

\* df['Fecha Límite'] = pd.to_datetime(df['Fecha Límite'], errors='coerce')
CoerceFecha(frame) ==
    IF ~HasColumn(frame, "Fecha Límite") THEN frame
    ELSE LET cells == Col(frame, "Fecha Límite").cells
         IN  SetColumn(frame, "Fecha Límite",
                 [name |-> "Fecha Límite", dtype |-> "datetime64",
                  cells |-> [r \in DOMAIN cells |-> ToDatetimeCell(cells[r])]])

\* The row orders df.sort_values(by) can give: ascending, missing values
\* last (in their original order); the default sort is not stable, so rows
\* with equal keys come in any order.
RECURSIVE AscendingOrders(_, _)
AscendingOrders(cells, rows) ==
    IF rows = {} THEN {<<>>}
    ELSE LET least == {i \in rows : \A j \in rows : cells[i].t <= cells[j].t}
         IN  UNION {{<<i>> \o rest : rest \in AscendingOrders(cells, rows \ {i})} :
                       i \in least}

\* the rows of the missing values, in their order
MissingRows(cells) == SelectSeq([i \in DOMAIN cells |-> i], LAMBDA i : IsMissing(cells[i]))

SortOrders(cells) ==
    {order \o MissingRows(cells) :
        order \in AscendingOrders(cells, {i \in DOMAIN cells : ~IsMissing(cells[i])})}

\* the rows of frame taken in the given order
TakeRows(frame, order) ==
    [frame EXCEPT !.columns =
        [c \in DOMAIN @ |-> [@[c] EXCEPT !.cells = [r \in DOMAIN order |-> @[order[r]]]]]]

\* df.sort_values('Fecha Límite'), when the column is present
SortByFecha(frame) ==
    IF ~HasColumn(frame, "Fecha Límite") THEN {frame}
    ELSE {TakeRows(frame, order) : order \in SortOrders(Col(frame, "Fecha Límite").cells)}

Sentinel == "No especificado"

\* fillna('No especificado'), then .str.strip(), of one cell of an object
\* column (.str.strip() of a value that is not a string is missing)
FillAndStripCell(c) ==
    IF IsMissing(c) THEN Str(Sentinel)
    ELSE IF c.k = "str" THEN Str(Strip(c.s))
    ELSE Missing

\* for col in df.select_dtypes(include=['object']): fillna, then str.strip()
FillAndStrip(frame) ==
    [frame EXCEPT !.columns =
        [i \in DOMAIN frame.columns |->
            IF frame.columns[i].dtype # "object" THEN frame.columns[i]
            ELSE [frame.columns[i] EXCEPT !.cells =
                     [r \in DOMAIN frame.columns[i].cells |->
                         FillAndStripCell(frame.columns[i].cells[r])]]]]

\* lines 58-77: the tables the CSV branch can return for a parsed frame
Normalize(frame) ==
    {FillAndStrip(sorted) :
        sorted \in SortByFecha(CoerceFecha(CoerceDuracion(StripColumnNames(frame))))}

---------------------------------------------------------------------------
(* The files of data/ *)

\* A file is absent, or its text does not parse (pd.read_csv / pd.read_json
\* raises), or it parses to a frame.
NoFile == [kind |-> "absent"]
Malformed == [kind |-> "malformed"]
Parsed(frame) == [kind |-> "frame", frame |-> frame]

Column(name, dtype, cells) == [name |-> name, dtype |-> dtype, cells |-> cells]

\* cases.csv: padded header and values, a bad number, a bad date, an empty cell
CsvCases ==
    [nrows |-> 3,
     columns |-> <<
        Column(" Actuación ", "object", <<Str(" Auto "), Str("Sentencia"), Str("Auto")>>),
        Column("Duración", "object", <<Str("10"), Str("bad"), Str("25")>>),
        Column("Fecha Límite", "object",
               <<Str("2024-03-01"), Str("sin fecha"), Str("2024-01-15")>>),
        Column("Juzgado", "object", <<Str("J1"), Missing, Str("J2 ")>>),
        Column("Estado", "object", <<Str("Activo"), Str("Activo"), Str("Cerrado")>>),
        Column("Ciudad", "object", <<Str("Cali"), Str("Cali"), Str("Cali")>>)>>]

\* a CSV file with a header line and no record
CsvHeaderOnly ==
    [nrows |-> 0,
     columns |-> <<Column("Actuación", "object", <<>>),
                   Column("Juzgado", "object", <<>>)>>]

\* a JSON file whose deadlines are free text
JsonBadDate ==
    [nrows |-> 2,
     columns |-> <<
        Column("Fecha Límite", "object", <<Str("2024-01-15"), Str("pendiente")>>),
        Column("Duración", "int64", <<Num(10), Num(25)>>)>>]

\* a JSON file with a nested object per record
JsonNested ==
    [nrows |-> 2,
     columns |-> <<
        Column("Actuación", "object", <<Str("Auto"), Str("Auto")>>),
        Column("partes", "object", <<Nested, Nested>>)>>]

\* a JSON file of eleven records, one of them with "Juzgado": null
JsonCases ==
    [nrows |-> 11,
     columns |-> <<
        Column("Actuación", "object",
               [i \in 1..11 |-> IF i <= 6 THEN Str("Auto") ELSE Str("Sentencia")]),
        Column("Juzgado", "object",
               <<Str("J1"), Str("J1"), Str("J1"), Str("J2"), Str("J2"), Str("J3"),
                 Str("J3"), Str("J4"), Str("J5"), Str("J6"), Missing>>)>>]

CsvFiles == {NoFile, Malformed, Parsed(CsvCases), Parsed(CsvHeaderOnly)}
JsonFiles == {NoFile, Malformed, Parsed(JsonBadDate), Parsed(JsonNested), Parsed(JsonCases)}

---------------------------------------------------------------------------
(* The sample table of load_data *)

\* len(pd.date_range('2023-01-01', '2023-12-31', freq='D')) and the size
\* of the three random columns
SampleRows == 365

\* The draws of np.random are free; the model takes two of them.
SampleDraws == {1, 2}

SampleFrame(draw) ==
    [nrows |-> SampleRows,
     columns |-> <<
        Column("fecha", "datetime64", [i \in 1..SampleRows |-> Date((i - 1) * SecondsPerDay)]),
        Column("ventas", "int64", [i \in 1..SampleRows |-> Num(100 + ((i * 37 * draw) % 900))]),
        Column("categoria", "object",
               [i \in 1..SampleRows |-> Str(<<"A", "B", "C">>[1 + ((i * i * draw) % 3)])]),
        Column("region", "object",
               [i \in 1..SampleRows |->
                   Str(<<"Norte", "Sur", "Este", "Oeste">>[1 + ((i * i * draw + (i \div 7)) % 4)])])>>]

---------------------------------------------------------------------------
(* Page elements *)

Element(kind, text) == [kind |-> kind, text |-> text]
Data(kind, text, data) == [kind |-> kind, text |-> text, data |-> data]

LoadError == Element("error", "Error al cargar el archivo")
PassError == Element("error", "Error al cargar o procesar los datos")
PassHint ==
    Element("info", "Por favor, asegúrese de tener archivos de datos (.csv o .json) en la carpeta 'data/'")

---------------------------------------------------------------------------
(* load_data *)

\* load_data whose except clause falls through to the JSON file and the
\* sample instead of returning the empty table
load_data_fallthrough(dir) ==
    IF dir.csv.kind = "frame"
    THEN {[exc |-> "none", val |-> t, messages |-> <<>>, via |-> "csv"] :
             t \in Normalize(dir.csv.frame)}
    ELSE LET said == IF dir.csv.kind = "malformed" THEN <<LoadError>> ELSE <<>>
         IN  IF dir.json.kind = "malformed"
             THEN {[exc |-> "ValueError", via |-> "raised"]}
             ELSE IF dir.json.kind = "frame"
             THEN {[exc |-> "none", val |-> dir.json.frame, messages |-> said, via |-> "json"]}
             ELSE {[exc |-> "none", val |-> SampleFrame(d), messages |-> said, via |-> "sample"] :
                      d \in SampleDraws}

\* The outcomes of one execution of the body of load_data on the files of
\* data/: the table returned (or the exception raised), the elements the
\* body emits, and the return statement reached.
load_data(dir) ==
    IF dir.csv.kind = "malformed"
    THEN {[exc |-> "none", val |-> EmptyFrame, messages |-> <<LoadError>>, via |-> "csv_error"]}
    ELSE IF dir.csv.kind = "frame"
    THEN {[exc |-> "none", val |-> t, messages |-> <<>>, via |-> "csv"] :
             t \in Normalize(dir.csv.frame)}
    ELSE IF dir.json.kind = "malformed"
    THEN {[exc |-> "ValueError", via |-> "raised"]}
    ELSE IF dir.json.kind = "frame"
    THEN {[exc |-> "none", val |-> dir.json.frame, messages |-> <<>>, via |-> "json"]}
    ELSE {[exc |-> "none", val |-> SampleFrame(d), messages |-> <<>>, via |-> "sample"] :
             d \in SampleDraws}

---------------------------------------------------------------------------
(* @st.cache_data(ttl=3600): one slot (load_data takes no argument).  An   *)
(* entry is served while the time is before its expiry; the elements the   *)
(* body emitted are replayed with it.  A call that raises stores nothing.  *)

TTL == 3600

NoEntry == [empty |-> TRUE]

\* Fresh with the entry still served at the instant of its expiry
Fresh_inclusive(entry, now) == entry # [empty |-> TRUE] /\ now <= entry.stored + 3600

Fresh(entry, now) == entry # NoEntry /\ now < entry.stored + TTL

---------------------------------------------------------------------------
(* The stages of the script, lines 146-310 *)

\* the except clause without its st.info line
Handler_no_hint == <<PassError>>

\* The except clause, lines 308-310
Handler == <<PassError, PassHint>>

\* pd.to_datetime(x) of one cell, errors='raise'
CanConvertDate(c) ==
    \/ c.k \in {"date", "missing", "num"}
    \/ c.k = "str" /\ c.s \in DOMAIN DateTexts

ToDatetimeStrictCell(c) ==
    IF c.k = "num" THEN Date(c.n \div 1000000000) ELSE ToDatetimeCell(c)

\* Lines 150-196: title, section header, re-coercion of the date column,
\* timeline chart.  The frame is df as the stage leaves it.
TimelineStage(frame) ==
    LET head == <<Element("title", "Dashboard Interactivo"),
                  Element("subheader", "Evolución Temporal")>>
        date_col == HasColumn(frame, "Fecha Límite")
        cells == Col(frame, "Fecha Límite").cells
        converted ==
            IF date_col
            THEN SetColumn(frame, "Fecha Límite",
                     [name |-> "Fecha Límite", dtype |-> "datetime64",
                      cells |-> [r \in DOMAIN cells |-> ToDatetimeStrictCell(cells[r])]])
            ELSE frame
    IN  IF date_col /\ \E i \in 1..frame.nrows :
                           ~CanConvertDate(Col(frame, "Fecha Límite").cells[i])
        THEN [exc |-> "ValueError", frame |-> frame, out |-> head]
        ELSE IF date_col /\ HasColumn(frame, "Duración")
        THEN IF ~IsNumeric(Col(frame, "Duración").cells)
             THEN [exc |-> "TypeError", frame |-> converted, out |-> head]
             ELSE [exc |-> "none", frame |-> converted,
                   out |-> head \o <<Element("line_chart",
                                             "Evolución de la Duración de Casos")>>]
        ELSE [exc |-> "none", frame |-> converted, out |-> head]

\* st.metric(label=kpi['title'], value=kpi['value'], delta=kpi['delta'], ...)
Metric(kpi) == [kind |-> "metric", text |-> kpi.title, value |-> kpi.value, delta |-> kpi.delta]

\* df.select_dtypes(include=['object']).columns
categorical_cols(frame) ==
    LET objects == SelectSeq(frame.columns, LAMBDA col : col.dtype = "object")
    IN  [i \in DOMAIN objects |-> objects[i].name]

Min(a, b) == IF a < b THEN a ELSE b

\* value_counts.head(5)
TopN == 5
top_5(counts) == SubSeq(counts, 1, Min(TopN, Len(counts)))

\* pd.Series({'Otros': value_counts[5:].sum()}) if len(value_counts) > 5 else pd.Series({})
others(counts) ==
    IF Len(counts) > TopN
    THEN <<[label |-> Str("Otros"),
            count |-> SumSeq([i \in 1..(Len(counts) - TopN) |-> counts[TopN + i].count])]>>
    ELSE <<>>

\* pd.concat([top_5, others])
final_counts(counts) == top_5(counts) \o others(counts)

\* pd.DataFrame({'Categoría': final_counts.index, 'Cantidad': final_counts.values})
pie_data(counts) ==
    [i \in DOMAIN final_counts(counts) |->
        [Categoria |-> final_counts(counts)[i].label,
         Cantidad |-> final_counts(counts)[i].count]]

\* A step of a stage: what it emits and the exception it raises, if any.
Emit(out) == [exc |-> "none", out |-> out]
Fail(x, out) == [exc |-> x, out |-> out]

\* first, and then (unless first raised) second
Then(first, second) ==
    {IF a.exc # "none" THEN a ELSE [exc |-> b.exc, out |-> a.out \o b.out] :
        a \in first, b \in second}

\* Lines 221-229 and 268-271: a count table of one column.  The first is
\* counted after fillna('No especificado').
CountTable(frame, name, fill) ==
    LET cells == Col(frame, name).cells
        filled == [i \in DOMAIN cells |->
                      IF fill /\ IsMissing(cells[i]) THEN Str(Sentinel) ELSE cells[i]]
        header == Element("write", "### Conteo de " \o name)
    IN  {IF vc.exc # "none" THEN Fail(vc.exc, <<header>>)
         ELSE Emit(<<header, Data("write", name, vc.val)>>) : vc \in value_counts(filled)}

\* Lines 232-264 and 274-306: the top-5 pie of one column
TopFivePie(frame, name) ==
    {IF vc.exc # "none" THEN Fail(vc.exc, <<>>)
     ELSE Emit(<<Data("pie_chart", "Top 5 - " \o name, pie_data(vc.val))>>) :
        vc \in value_counts(Col(frame, name).cells)}

\* Lines 214-306
CategoricalStage(frame) ==
    LET cols == categorical_cols(frame)
        Block(k, S) == IF Len(cols) >= k THEN S ELSE {Emit(<<>>)}
    IN  Then({Emit(<<Element("subheader", "Análisis Detallado")>>)},
        Then(Block(1, CountTable(frame, cols[1], TRUE)),
        Then(Block(2, TopFivePie(frame, cols[2])),
        Then(Block(3, CountTable(frame, cols[3], FALSE)),
             Block(4, TopFivePie(frame, cols[4]))))))

---------------------------------------------------------------------------
(* Actions *)

\* df = load_data(), line 147, through the cache of line 42
Load ==
    /\ pc = "load"
    /\ IF Fresh(cache, clock)
       THEN /\ df' = cache.value
            /\ screen' = screen \o cache.messages
            /\ load_return' = "cache"
            /\ pc' = "timeline"
            /\ UNCHANGED <<cache, caught>>
       ELSE \E r \in load_data(data_dir) :
               IF r.exc = "none"
               THEN /\ cache' = [value |-> r.val, stored |-> clock, messages |-> r.messages]
                    /\ df' = r.val
                    /\ screen' = screen \o r.messages
                    /\ load_return' = r.via
                    /\ pc' = "timeline"
                    /\ UNCHANGED caught
               ELSE /\ caught' = r.exc
                    /\ screen' = screen \o Handler
                    /\ load_return' = r.via
                    /\ pc' = "done"
                    /\ UNCHANGED <<cache, df>>
    /\ UNCHANGED <<data_dir, clock, kpi_metrics>>

\* Lines 150-196
Timeline ==
    /\ pc = "timeline"
    /\ LET r == TimelineStage(df)
       IN  /\ df' = r.frame
           /\ IF r.exc = "none"
              THEN screen' = screen \o r.out /\ pc' = "kpi" /\ UNCHANGED caught
              ELSE screen' = screen \o r.out \o Handler /\ pc' = "done" /\ caught' = r.exc
    /\ UNCHANGED <<data_dir, clock, cache, load_return, kpi_metrics>>

\* Lines 199-211
Kpi ==
    /\ pc = "kpi"
    /\ \E r \in get_kpi_metrics(df, clock) :
          LET head == <<Element("subheader", "Métricas Clave")>>
          IN  IF r.exc = "none"
              THEN /\ kpi_metrics' = r.val
                   /\ screen' = screen \o head \o [i \in DOMAIN r.val |-> Metric(r.val[i])]
                   /\ pc' = "categorical"
                   /\ UNCHANGED caught
              ELSE /\ caught' = r.exc
                   /\ screen' = screen \o head \o Handler
                   /\ pc' = "done"
                   /\ UNCHANGED kpi_metrics
    /\ UNCHANGED <<data_dir, clock, cache, load_return, df>>

\* Lines 214-306
Categorical ==
    /\ pc = "categorical"
    /\ \E r \in CategoricalStage(df) :
          IF r.exc = "none"
          THEN screen' = screen \o r.out /\ UNCHANGED caught
          ELSE screen' = screen \o r.out \o Handler /\ caught' = r.exc
    /\ pc' = "done"
    /\ UNCHANGED <<data_dir, clock, cache, load_return, df, kpi_metrics>>

\* Streamlit runs the script again from the top: a new pass, a fresh page;
\* only the cache lives on.
Rerun ==
    /\ pc = "done"
    /\ pc' = "load"
    /\ df' = Unbound
    /\ kpi_metrics' = NoKpis
    /\ caught' = "none"
    /\ load_return' = "none"
    /\ screen' = <<>>
    /\ UNCHANGED <<data_dir, clock, cache>>

\* Time passes between passes, in steps of a third of the TTL.
ClockStep == TTL \div 3

Tick ==
    /\ pc = "done"
    /\ clock < MaxTicks * ClockStep
    /\ clock' = clock + ClockStep
    /\ UNCHANGED <<data_dir, cache, pc, load_return, df, kpi_metrics, caught, screen>>

\* The files of data/ are replaced between passes.
ChangeFiles ==
    /\ pc = "done"
    /\ \E c \in CsvFiles, j \in JsonFiles :
          /\ data_dir' = [csv |-> c, json |-> j]
          /\ data_dir' # data_dir
    /\ UNCHANGED <<clock, cache, pc, load_return, df, kpi_metrics, caught, screen>>

Init ==
    /\ data_dir \in [csv : CsvFiles, json : JsonFiles]
    /\ clock = 0
    /\ cache = NoEntry
    /\ pc = "load"
    /\ load_return = "none"
    /\ df = Unbound
    /\ kpi_metrics = NoKpis
    /\ caught = "none"
    /\ screen = <<>>

Next == Load \/ Timeline \/ Kpi \/ Categorical \/ Rerun \/ Tick \/ ChangeFiles

Spec == Init /\ [][Next]_vars

---------------------------------------------------------------------------
(* get_kpi_metrics on bounded tables: the pass from the point where        *)
(* load_data has returned, for every table of at most MaxRows rows and     *)
(* MaxCells cells built from the three columns the function reads.         *)

KpiEpoch == 2 * SecondsPerDay
KpiInstants == {KpiEpoch, KpiEpoch + 1}

ShortName == "Auto"
Name20 == "Audiencia preliminar"
Name21 == "Notificación personal"

KpiColumns == <<"Duración", "Fecha Límite", "Actuación">>

KpiDtype(name) ==
    IF name = "Duración" THEN "float64"
    ELSE IF name = "Fecha Límite" THEN "datetime64" ELSE "object"

KpiCells(name) ==
    IF name = "Duración" THEN {Missing, Num(10), Num(25)}
    ELSE IF name = "Fecha Límite"
    THEN {Missing, Date(KpiEpoch), Date(KpiEpoch + 30 * SecondsPerDay),
          Date(KpiEpoch + 30 * SecondsPerDay + 1)}
    ELSE {Missing, Str(ShortName), Str(Name20), Str(Name21)}

\* the tables of n rows with exactly the columns of `present`
KpiTablesOf(present, n) ==
    LET names == SelectSeq(KpiColumns, LAMBDA c : c \in present)
    IN  {[nrows |-> n,
          columns |-> [i \in DOMAIN names |->
                          Column(names[i], KpiDtype(names[i]), cells[names[i]])]] :
            cells \in {f \in [present -> UNION {[1..n -> KpiCells(c)] : c \in present}] :
                          \A c \in present : f[c] \in [1..n -> KpiCells(c)]}}

InitKpi ==
    /\ data_dir = [csv |-> NoFile, json |-> NoFile]
    /\ clock \in KpiInstants
    /\ cache = NoEntry
    /\ pc = "timeline"
    /\ load_return = "none"
    /\ \E present \in SUBSET Range(KpiColumns), n \in 0..MaxRows :
          /\ n * Cardinality(present) <= MaxCells
          /\ df \in KpiTablesOf(present, n)
    /\ kpi_metrics = NoKpis
    /\ caught = "none"
    /\ screen = <<>>

NextKpi == Timeline \/ Kpi

SpecKpi == InitKpi /\ [][NextKpi]_vars

---------------------------------------------------------------------------
(* Vocabulary of the properties *)

NonMissing(cells) == {c \in Range(cells) : ~IsMissing(c)}

OnScreen(element) == \E i \in DOMAIN screen : screen[i] = element
HasKind(kind) == \E i \in DOMAIN screen : screen[i].kind = kind

PassCompleted == pc = "done" /\ caught = "none"
PassFailed == caught # "none"

\* get_kpi_metrics has been called in this pass / has returned
KpiCalled == OnScreen(Element("subheader", "Métricas Clave"))
KpiReturned == kpi_metrics # NoKpis

KpiTitles == [i \in DOMAIN kpi_metrics |-> kpi_metrics[i].title]
KpiIndex(title) == CHOOSE i \in DOMAIN kpi_metrics : kpi_metrics[i].title = title

\* the pie drawn for a column
PieData(name) ==
    screen[CHOOSE i \in DOMAIN screen :
               screen[i].kind = "pie_chart" /\ screen[i].text = "Top 5 - " \o name].data

---------------------------------------------------------------------------
\* C1: every top-5 pie of a completed pass shows, for a column of at most
\* five distinct values, exactly the per-value counts and no 'Otros' entry,
\* and for a column of more than five distinct values the five highest
\* counts plus one 'Otros' entry, all six adding up to the row count.
C1_TopFiveSumsToRows ==
    PassCompleted =>
        \A k \in {2, 4} : Len(categorical_cols(df)) >= k =>
            LET cells == Col(df, categorical_cols(df)[k]).cells
                values == NonMissing(cells)
                data == PieData(categorical_cols(df)[k])
                labels(n) == {data[i].Categoria : i \in 1..n}
            IN  IF Cardinality(values) <= 5
                THEN /\ Len(data) = Cardinality(values)
                     /\ Str("Otros") \notin labels(Len(data))
                     /\ \A i \in DOMAIN data :
                           /\ data[i].Categoria \in values
                           /\ data[i].Cantidad = Occurrences(cells, data[i].Categoria)
                     /\ labels(Len(data)) = values
                ELSE /\ Len(data) = 6
                     /\ Cardinality(labels(5)) = 5
                     /\ \A i \in 1..5 :
                           /\ data[i].Categoria \in values
                           /\ data[i].Cantidad = Occurrences(cells, data[i].Categoria)
                           /\ \A v \in values \ labels(5) :
                                 Occurrences(cells, v) <= data[i].Cantidad
                     /\ data[6].Categoria = Str("Otros")
                     /\ data[6].Cantidad + SumSeq([i \in 1..5 |-> data[i].Cantidad]) = df.nrows

\* C2: when get_kpi_metrics returns, the titles of its records are the
\* fixed order Total / Duración / Vencimientos / Actuación restricted to the
\* columns the table has, and the first record carries the row count.
C2_KpiSequence ==
    KpiReturned =>
        /\ KpiTitles =
              <<"Total de Casos">>
              \o (IF "Duración" \in ColumnNames(df) THEN <<"Duración Promedio">> ELSE <<>>)
              \o (IF "Fecha Límite" \in ColumnNames(df) THEN <<"Próximos Vencimientos">> ELSE <<>>)
              \o (IF "Actuación" \in ColumnNames(df) THEN <<"Actuación más Común">> ELSE <<>>)
        /\ kpi_metrics[1].value = df.nrows

C2_Witness ==
    /\ KpiReturned
    /\ ColumnNames(df) = {"Fecha Límite", "Actuación"}
    /\ KpiTitles = <<"Total de Casos", "Próximos Vencimientos", "Actuación más Común">>

\* C3: when get_kpi_metrics is called on a table in which a statistical KPI
\* has nothing to compute over (no 'Duración' value, no 'Actuación' value),
\* it returns, and no record carries the formatting of an empty mean.
C3_NoDataIsExplicit ==
    LET noDuracion == /\ "Duración" \in ColumnNames(df)
                      /\ NonMissing(Col(df, "Duración").cells) = {}
        noActuacion == /\ "Actuación" \in ColumnNames(df)
                       /\ NonMissing(Col(df, "Actuación").cells) = {}
    IN  KpiCalled /\ (noDuracion \/ noActuacion) =>
            /\ KpiReturned
            /\ \A i \in DOMAIN kpi_metrics :
                  kpi_metrics[i].title = "Duración Promedio" => kpi_metrics[i].value # "nan"

\* C4: no call of load_data ends by raising.
C4_LoadNeverRaises == load_return # "raised"

\* C5: right after an execution of the body of load_data, the table is the
\* one its source priority gives: with a CSV file, the normalised CSV frame,
\* or the empty table plus the load error when the CSV does not parse
\* (whatever the JSON file is); the JSON frame as parsed only when there is
\* no CSV file; the 365-row sample only when there is neither.
C5_SourcePriority ==
    pc = "timeline" /\ load_return \notin {"cache", "none"} =>
        /\ data_dir.csv.kind = "malformed" =>
              load_return = "csv_error" /\ df = [nrows |-> 0, columns |-> <<>>]
              /\ screen = <<LoadError>>
        /\ data_dir.csv.kind = "frame" =>
              /\ load_return = "csv"
              /\ \A i \in DOMAIN df.columns :
                    /\ df.columns[i].name = Strip(data_dir.csv.frame.columns[i].name)
                    /\ df.columns[i].dtype = "object" =>
                          \A r \in 1..df.nrows : df.columns[i].cells[r].k = "str"
              /\ df.nrows = data_dir.csv.frame.nrows
        /\ load_return = "json" =>
              data_dir.csv.kind = "absent" /\ df = data_dir.json.frame
        /\ load_return = "sample" =>
              /\ data_dir.csv.kind = "absent" /\ data_dir.json.kind = "absent"
              /\ df.nrows = 365
              /\ [i \in DOMAIN df.columns |-> df.columns[i].name]
                    = <<"fecha", "ventas", "categoria", "region">>
        /\ data_dir.csv.kind = "absent" /\ data_dir.json.kind = "frame" =>
              load_return = "json"
        /\ data_dir.csv.kind = "absent" /\ data_dir.json.kind = "absent" =>
              load_return = "sample"

\* a CSV file that does not parse, beside a JSON file that would
C5_Witness ==
    /\ load_return = "csv_error"
    /\ data_dir.json.kind = "frame"
    /\ pc = "timeline"
    /\ df = EmptyFrame

\* C6: an entry stored at time t is kept untouched as long as the time is
\* before t + 3600; a call before t + 3600 returns the stored table without
\* running the body; a call at or after t + 3600 (or with nothing stored)
\* runs the body on the files as they are now and stores what it returns.
C6_CacheWindow ==
    [][/\ cache # NoEntry /\ clock' < cache.stored + 3600 => cache' = cache
       /\ pc = "load" /\ pc' # "load" =>
             IF cache # NoEntry /\ clock < cache.stored + 3600
             THEN load_return' = "cache" /\ df' = cache.value
             ELSE \E r \in load_data(data_dir) :
                     /\ load_return' = r.via
                     /\ r.exc = "none" =>
                           /\ df' = r.val
                           /\ cache'.value = r.val
                           /\ cache'.stored = clock]_vars

\* a call served from the cache although the files would now give another table
C6_Witness ==
    /\ load_return = "cache"
    /\ pc = "timeline"
    /\ clock > cache.stored
    /\ \A r \in load_data(data_dir) : r.exc # "none" \/ r.val # df

\* C7: a pass that failed has shown its error message and leaves a table or
\* a KPI set behind to render.
C7_DegradedButValid ==
    PassFailed =>
        /\ pc = "done"
        /\ OnScreen(PassError)
        /\ (df # Unbound \/ kpi_metrics # NoKpis)

\* the record of the most common 'Actuación', once get_kpi_metrics returned
ActuacionRecord == kpi_metrics[KpiIndex("Actuación más Común")]

\* the values of 'Actuación' that no other value outnumbers
MostCommon ==
    LET cells == Col(df, "Actuación").cells
    IN  {v \in NonMissing(cells) :
            \A w \in NonMissing(cells) : Occurrences(cells, w) <= Occurrences(cells, v)}

FirstRow(cells, v) == CHOOSE i \in DOMAIN cells : cells[i] = v /\ \A j \in 1..(i - 1) : cells[j] # v

\* a name as the card shows it
Shown(name) == IF Len(name) <= 20 THEN name ELSE SubSeq(name, 1, 20) \o "..."

C9_UpcomingDeadlines ==
    KpiReturned /\ "Fecha Límite" \in ColumnNames(df) =>
        LET cells == Col(df, "Fecha Límite").cells
        IN  kpi_metrics[KpiIndex("Próximos Vencimientos")].value =
                Cardinality({i \in DOMAIN cells :
                    /\ cells[i].k = "date"
                    /\ clock <= cells[i].t
                    /\ cells[i].t <= clock + 30 * 24 * 60 * 60})

\* deadlines at both ends of the window, one just past it, one missing
C9_Witness ==
    /\ KpiReturned
    /\ "Fecha Límite" \in ColumnNames(df)
    /\ Col(df, "Fecha Límite").cells =
          <<Date(clock), Missing, Date(clock + 30 * 24 * 60 * 60),
            Date(clock + 30 * 24 * 60 * 60 + 1)>>
    /\ kpi_metrics[KpiIndex("Próximos Vencimientos")].value = 2

\* the stage an element of the page comes from
StageOf(e) ==
    IF e = LoadError THEN 1
    ELSE IF e.kind \in {"title", "line_chart"} \/ e = Element("subheader", "Evolución Temporal")
    THEN 2
    ELSE IF e.kind = "metric" \/ e = Element("subheader", "Métricas Clave") THEN 3
    ELSE IF e.kind \in {"write", "pie_chart"} \/ e = Element("subheader", "Análisis Detallado")
    THEN 4
    ELSE 5

IsPrefix(s, t) == Len(s) <= Len(t) /\ \A i \in DOMAIN s : s[i] = t[i]

\* C10: the stages run in the order load, timeline, KPI cards, categorical
\* tables; a stage that raises ends the pass, so the KPI cards are on the
\* page only when load and timeline went through and the categorical
\* elements only when get_kpi_metrics returned; what is on the page stays;
\* a failed pass ends with exactly one error message and one hint.
C10_StageOrder ==
    /\ [](/\ \A i, j \in DOMAIN screen : i < j => StageOf(screen[i]) <= StageOf(screen[j])
          /\ HasKind("metric") =>
                /\ df # Unbound /\ KpiReturned
                /\ OnScreen(Element("title", "Dashboard Interactivo"))
                /\ PassFailed => OnScreen(Element("subheader", "Análisis Detallado"))
          /\ (\E i \in DOMAIN screen : StageOf(screen[i]) = 4) =>
                KpiReturned /\ HasKind("metric")
          /\ PassFailed =>
                /\ pc = "done"
                /\ Len(screen) >= 2
                /\ screen[Len(screen) - 1] = PassError
                /\ screen[Len(screen)] = PassHint
                /\ Cardinality({i \in DOMAIN screen : screen[i].kind = "error"}) = 1
                /\ Cardinality({i \in DOMAIN screen : screen[i].kind = "info"}) = 1
          /\ ~PassFailed => ~OnScreen(PassError) /\ ~OnScreen(PassHint))
    /\ [][/\ pc' # pc =>
                /\ <<pc, pc'>> \in {<<"load", "timeline">>, <<"timeline", "kpi">>,
                                    <<"kpi", "categorical">>, <<"categorical", "done">>,
                                    <<"load", "done">>, <<"timeline", "done">>,
                                    <<"kpi", "done">>, <<"done", "load">>}
                /\ pc \in {"load", "timeline", "kpi"} /\ pc' = "done" => caught' # "none"
          /\ pc' # "load" => IsPrefix(screen, screen')
          /\ caught # "none" /\ pc' # "load" => screen' = screen]_vars

\* get_kpi_metrics raised after the timeline section had been drawn
C10_Witness ==
    /\ pc = "done"
    /\ caught = "IndexError"
    /\ OnScreen(Element("subheader", "Evolución Temporal"))
    /\ OnScreen(Element("subheader", "Métricas Clave"))
    /\ ~HasKind("metric")

=============================================================================
